---- MODULE Spec2Model ----
(***************************************************************************)
(* Free-list allocator of valsov/mem-alloc (src/src/free_list) and, in the  *)
(* second half of the module, its bump allocator (src/src/bumper.rs).      *)
(*                                                                         *)
(* Addresses are byte offsets from the arena base (the base itself is      *)
(* taken to be aligned for every alignment requested).  The arena bytes    *)
(* are modelled by the typed values a `ptr::read` would return: `nodes`    *)
(* maps an address to the Node header whose bytes are stored there intact, *)
(* `metas` maps an address to the AllocationMetadata stored there intact.  *)
(* Writing any object removes every other stored object whose bytes it     *)
(* overlaps; reading an address that holds no intact object yields an      *)
(* arbitrary value (drawn from GarbageNodes / GarbageMetas).               *)
(***************************************************************************)
EXTENDS Integers, Sequences, FiniteSets, TLC

\* free_root : AllocatorRoot::free_root, an Option of an address
\* nodes     : address -> Node stored intact in the arena
\* metas     : address -> AllocationMetadata stored intact in the arena
\* live      : the allocations returned by alloc and not yet deallocated
\* status    : "ok"; "hang" once a list walk never returns; "oob" once a
\*             call writes outside the arena (the run stops in both cases)
\* last      : the call that led to the current state (see NoOp)
\* fresh     : no dealloc has been called yet
\* calls     : number of alloc and dealloc calls made
VARIABLES free_root, nodes, metas, live, status, last, fresh, calls

vars == <<free_root, nodes, metas, live, status, last, fresh, calls>>

\* State of one BumpAllocator<N> and of the threads calling it:
\* allocated : BumpAllocator::allocated, the cursor
\* arena     : byte offset -> content of that arena byte: 0 a byte zeroed
\*             by a wipe, 1 any other byte (as the system allocator left it,
\*             or part of a stored value)
\* threads   : thread -> its position in the call it is making and the
\*             locals of that call (see IdleThread)
\* ranges    : <<offset, size, n>> of the successful allocs since the last
\*             reset, n telling apart allocs that returned the same range
\* bump_last : the step that led to the current state (see NoBumpOp)
VARIABLES allocated, arena, threads, ranges, bump_last

bump_vars == <<allocated, arena, threads, ranges, bump_last>>

\* Free-list allocator shared by threads:
\* mutex : the thread holding the Mutex around AllocatorRoot, 0 when free
\* lpc   : thread -> "idle", "waiting" (inside lock()) or "holding"
\* overlapped : thread -> another thread's operation changed the allocator
\*         since this thread acquired the lock (history)
VARIABLES mutex, lpc, overlapped

lock_vars == <<mutex, lpc, overlapped>>

\* One evaluation of Node::try_get_alloc_specs:
\* spec_in  : the node size, the request and the node address it is given
\* spec_out : None before the call, Some(result) after it
VARIABLES spec_in, spec_out

\* One evaluation of find_insertion_point followed by try_merge_nodes, as
\* create_free_node makes them:
\* list_in  : the nodes of a free list, its root and the block given back
\* list_out : None before the calls; then the pair found and, once
\*            try_merge_nodes has run, the Node and the address it returns
VARIABLES list_in, list_out

pure_vars == <<spec_in, spec_out, list_in, list_out>>

\* ---------------------------------------------------------------- constants
\* Layout::new::<Node>().size() on a 64-bit target
NODE_LAYOUT_SIZE == 24
\* Layout::new::<AllocationMetadata>().size() on a 64-bit target
ALLOCATION_METADATA_LAYOUT_SIZE == 16
\* arena capacity, the const generic S of FreeListAllocator<S>
S == 128

\* ------------------------------------------------------------------- bounds
\* at most this many allocations are live at the same time
MaxLive == 5
\* at most this many alloc and dealloc calls are made in one run
MaxCalls == 8
\* at most this many calls are made in one run of the threads sharing the
\* allocator
LockMaxCalls == 7

\* request sizes and alignments the callers use
Sizes == {4, 32}
Aligns == {1, 16}

\* the threads sharing the free-list allocator
LockThreads == {1, 2}

\* Lazy<Mutex<AllocatorRoot>> with no call in progress
LockNew ==
    /\ mutex = 0
    /\ lpc = [t \in LockThreads |-> "idle"]
    /\ overlapped = [t \in LockThreads |-> FALSE]

\* arguments of try_get_alloc_specs: node sizes around the sizes of the Node
\* header and of the metadata, request sizes, alignments and node addresses
NodeSizes == 0..72
RequestSizes == {1, 4, 8, 32, 64}
RequestAligns == {1, 2, 4, 8, 16}
NodePtrs == {0, 8, 20, 52}

IdleSpecsInput == [node_size |-> 0, size |-> 1, align |-> 1, ptr |-> 0]

\* ---------------------------------------------------------------- bumper.rs
\* arena capacity, the const generic N of BumpAllocator<N>
N == 4

\* the threads sharing the allocator (BumpAllocator is Sync: its fields are
\* atomics and every method takes &self)
Threads == {1, 2}

\* <<size, align>> of the layouts requested through GlobalAlloc::alloc
Layouts == {<<1, 1>>, <<2, 2>>, <<1, 4>>}

\* <<size, align>> of Layout::new::<T>() for the values passed to allocate
ValueLayouts == {<<1, 1>>, <<4, 4>>}

\* a thread that is not inside a call.  pc is "idle", "cas" (inside
\* fetch_update, holding the cursor value `seen` it loaded), "write"
\* (allocate, before ptr::write), "wipe" and "store" (dealloc_all, after
\* the load of the cursor into `seen`) or "panicked"; op is the method
\* being called; alloc_offset is the local of alloc; quiet tells whether no
\* allocation of another thread was in flight since the dealloc_all began
IdleThread == [pc |-> "idle", op |-> "none", size |-> 0, align |-> 1,
               seen |-> 0, alloc_offset |-> 0, wipe |-> FALSE, quiet |-> FALSE]

\* `bump_last` records the step that produced the current state: its kind,
\* the request, the cursor value c the step worked from, the cursor before
\* the step, the offset returned (-1 for none) and, for dealloc_all, its
\* wipe_memory argument and whether it ran with no allocation in flight
NoBumpOp == [op |-> "new", size |-> 0, align |-> 1, c |-> 0, before |-> 0,
             offset |-> -1, wipe |-> FALSE, quiet |-> FALSE]

\* BumpAllocator::new: cursor 0, arena bytes as the system allocator left
\* them
BumpNew ==
    /\ allocated = 0
    /\ arena = [i \in 0..(N - 1) |-> 1]
    /\ threads = [t \in Threads |-> IdleThread]
    /\ ranges = {}
    /\ bump_last = NoBumpOp

\* Option<T>: None is the empty sequence, Some(x) the one-element sequence
None == <<>>
Some(x) == <<x>>

\* values an untyped read of overwritten or foreign bytes may decode to
GarbageNodes ==
    { [size |-> s, next_ptr |-> n] :
        s \in {0, S}, n \in {None, Some(0)} }

GarbageMetas ==
    { [align_padding |-> p, fill_padding |-> f] : p \in {0, 8}, f \in {0} }

\* ------------------------------------------------------------ arena memory
Overlaps(a, la, b, lb) == a < b + lb /\ b < a + la

InArena(a, len) == 0 <= a /\ a + len <= S

\* ptr::read(a as *const Node)
ReadNode(ns, a, g) == IF a \in DOMAIN ns THEN ns[a] ELSE g

\* ptr::read(a as *mut AllocationMetadata)
ReadMeta(ms, a, g) == IF a \in DOMAIN ms THEN ms[a] ELSE g

\* bytes [a, a+len) are overwritten: objects stored over them are lost
ClobberNodes(ns, a, len) ==
    [b \in {x \in DOMAIN ns : ~Overlaps(x, NODE_LAYOUT_SIZE, a, len)} |-> ns[b]]

ClobberMetas(ms, a, len) ==
    [b \in {x \in DOMAIN ms : ~Overlaps(x, ALLOCATION_METADATA_LAYOUT_SIZE, a, len)}
        |-> ms[b]]

\* ptr::write(a as *mut Node, v) on the memory mem = [nodes, metas]
WriteNode(mem, a, v) ==
    LET ns == ClobberNodes(mem.nodes, a, NODE_LAYOUT_SIZE)
    IN  [nodes |-> [b \in DOMAIN ns \cup {a} |-> IF b = a THEN v ELSE ns[b]],
         metas |-> ClobberMetas(mem.metas, a, NODE_LAYOUT_SIZE)]

\* ptr::write(a as *mut AllocationMetadata, v)
WriteMeta(mem, a, v) ==
    LET ms == ClobberMetas(mem.metas, a, ALLOCATION_METADATA_LAYOUT_SIZE)
    IN  [nodes |-> ClobberNodes(mem.nodes, a, ALLOCATION_METADATA_LAYOUT_SIZE),
         metas |-> [b \in DOMAIN ms \cup {a} |-> IF b = a THEN v ELSE ms[b]]]

\* Addresses a later read can reach: the list walks of alloc and
\* find_insertion_point start at free_root (or at the target of a garbage
\* next_ptr) and follow stored next_ptr fields.
RECURSIVE Reach(_, _, _)
Reach(ns, p, seen) ==
    IF p = None \/ p[1] \in seen \/ p[1] \notin DOMAIN ns
    THEN seen
    ELSE Reach(ns, ns[p[1]].next_ptr, seen \cup {p[1]})

GarbageTargets == {g.next_ptr : g \in GarbageNodes} \ {None}

\* The model keeps only the headers some walk can still read and the
\* metadata a dealloc of a live allocation will read; all other bytes are
\* dead and are never read again.
KeepNodes(root, ns) ==
    LET keep == UNION {Reach(ns, p, {}) : p \in {root} \cup GarbageTargets}
    IN  [a \in keep |-> ns[a]]

KeepMetas(lv, ms) ==
    [a \in {x \in DOMAIN ms : \E l \in lv : l.ptr + l.size = x} |-> ms[a]]

\* ------------------------------------------------------------------ node.rs
Err == [ok |-> FALSE, padding |-> 0, size |-> 0, fill_padding |-> 0,
        remaining_size |-> 0]

\* fill padding of a block that is split: a mutation that never pads
split_fill_padding_zero(alloc_size) == 0

\* fill padding of a block that is split, mutated: the test that guards the
\* subtraction is missing
split_fill_padding_unclamped(alloc_size) == NODE_LAYOUT_SIZE - alloc_size

\* try_get_alloc_specs, fill_padding when a Node can be added after the
\* allocation
split_fill_padding(alloc_size) ==
    IF NODE_LAYOUT_SIZE <= alloc_size
    THEN 0
    ELSE NODE_LAYOUT_SIZE - alloc_size

\* try_get_alloc_specs, mutated: the metadata is left out of the space the
\* allocation needs
try_get_alloc_specs_no_metadata(node, size, align, ptr) ==
    IF size > node.size
    THEN Err
    ELSE LET alloc_padding == (align - (ptr % align)) % align
             alloc_size == alloc_padding + size
         IN  IF node.size > alloc_size + NODE_LAYOUT_SIZE
             THEN [ok |-> TRUE, padding |-> alloc_padding, size |-> size,
                   fill_padding |-> split_fill_padding(alloc_size),
                   remaining_size |-> node.size - alloc_size
                                        - split_fill_padding(alloc_size)]
             ELSE IF alloc_size <= node.size /\ node.size >= NODE_LAYOUT_SIZE
             THEN [ok |-> TRUE, padding |-> alloc_padding, size |-> size,
                   fill_padding |-> node.size - alloc_size,
                   remaining_size |-> 0]
             ELSE Err

\* try_get_alloc_specs, mutated: the fill padding is not taken off the
\* remainder
try_get_alloc_specs_remaining_no_fill(node, size, align, ptr) ==
    IF size > node.size
    THEN Err
    ELSE LET alloc_padding == (align - (ptr % align)) % align
             alloc_size == alloc_padding + size + ALLOCATION_METADATA_LAYOUT_SIZE
         IN  IF node.size > alloc_size + NODE_LAYOUT_SIZE
             THEN [ok |-> TRUE, padding |-> alloc_padding, size |-> size,
                   fill_padding |-> split_fill_padding(alloc_size),
                   remaining_size |-> node.size - alloc_size]
             ELSE IF alloc_size <= node.size /\ node.size >= NODE_LAYOUT_SIZE
             THEN [ok |-> TRUE, padding |-> alloc_padding, size |-> size,
                   fill_padding |-> node.size - alloc_size,
                   remaining_size |-> 0]
             ELSE Err

\* try_get_alloc_specs, mutated: a node smaller than a Node header is accepted
\* when the allocation fits
try_get_alloc_specs_no_header_test(node, size, align, ptr) ==
    IF size > node.size
    THEN Err
    ELSE LET alloc_padding == (align - (ptr % align)) % align
             alloc_size == alloc_padding + size + ALLOCATION_METADATA_LAYOUT_SIZE
         IN  IF node.size > alloc_size + NODE_LAYOUT_SIZE
             THEN [ok |-> TRUE, padding |-> alloc_padding, size |-> size,
                   fill_padding |-> split_fill_padding(alloc_size),
                   remaining_size |-> node.size - alloc_size
                                        - split_fill_padding(alloc_size)]
             ELSE IF alloc_size <= node.size
             THEN [ok |-> TRUE, padding |-> alloc_padding, size |-> size,
                   fill_padding |-> node.size - alloc_size,
                   remaining_size |-> 0]
             ELSE Err

try_get_alloc_specs(node, size, align, ptr) ==
    IF size > node.size
    THEN Err
    ELSE LET alloc_padding == (align - (ptr % align)) % align
             alloc_size == alloc_padding + size + ALLOCATION_METADATA_LAYOUT_SIZE
         IN  IF node.size > alloc_size + NODE_LAYOUT_SIZE
             THEN LET fill_padding == split_fill_padding(alloc_size)
                  IN  [ok |-> TRUE, padding |-> alloc_padding, size |-> size,
                       fill_padding |-> fill_padding,
                       remaining_size |-> node.size - alloc_size - fill_padding]
             ELSE IF alloc_size <= node.size /\ node.size >= NODE_LAYOUT_SIZE
             THEN [ok |-> TRUE, padding |-> alloc_padding, size |-> size,
                   fill_padding |-> node.size - alloc_size,
                   remaining_size |-> 0]
             ELSE Err

\* ------------------------------------------------------------- alloc_root.rs
\* AllocatorRoot::split_alloc on the heap h = [free_root, nodes, metas];
\* `previous` is an Option<Node> passed by value, `current` a Node by value.
\* The result carries the new heap, the returned pointer and the extents
\* written.
\* allocation pointer of split_alloc, mutated: the padding is not added
alloc_ptr_unpadded(prev_node, alloc_specs) == prev_node.next_ptr[1]

\* split_alloc, "calculate allocation ptr (current block start + padding)"
alloc_ptr_of(prev_node, alloc_specs) ==
    prev_node.next_ptr[1] + alloc_specs.padding

\* address of the remainder Node, mutated: the fill padding is not skipped
remainder_ptr_no_fill(meta_ptr, alloc_specs) ==
    meta_ptr + ALLOCATION_METADATA_LAYOUT_SIZE

\* split_alloc, "Split the area into allocated and free": where the Node of
\* the remainder is written
remainder_ptr(meta_ptr, alloc_specs) ==
    meta_ptr + ALLOCATION_METADATA_LAYOUT_SIZE + alloc_specs.fill_padding

\* root update of split_alloc, mutated: free_root is never replaced
new_free_root_stale(is_root, prev_next, old_root) == old_root

\* split_alloc, "Additional work if root node"
new_free_root(is_root, prev_next, old_root) ==
    IF is_root THEN prev_next ELSE old_root

split_alloc(h, previous, current, alloc_specs) ==
    LET is_root == previous = None
        prev_node == IF is_root
                     THEN [next_ptr |-> h.free_root, size |-> 0]
                     ELSE previous[1]
        alloc_ptr == alloc_ptr_of(prev_node, alloc_specs)
        meta_ptr == alloc_ptr + alloc_specs.size
        metadata == [align_padding |-> alloc_specs.padding,
                     fill_padding |-> alloc_specs.fill_padding]
        mem1 == WriteMeta([nodes |-> h.nodes, metas |-> h.metas], meta_ptr, metadata)
        split == alloc_specs.remaining_size # 0
        node_ptr == remainder_ptr(meta_ptr, alloc_specs)
        new_node == [size |-> alloc_specs.remaining_size,
                     next_ptr |-> current.next_ptr]
        mem2 == IF split THEN WriteNode(mem1, node_ptr, new_node) ELSE mem1
        \* prev_node is a local copy of the previous Node: the assignment to
        \* prev_node.next_ptr changes the copy, and is stored only as the new
        \* free_root when there is no previous node
        prev_next == IF split THEN Some(node_ptr) ELSE current.next_ptr
    IN  [free_root |-> new_free_root(is_root, prev_next, h.free_root),
         nodes |-> mem2.nodes,
         metas |-> mem2.metas,
         ptr |-> alloc_ptr,
         writes |-> {<<meta_ptr, ALLOCATION_METADATA_LAYOUT_SIZE>>}
                      \cup (IF split THEN {<<node_ptr, NODE_LAYOUT_SIZE>>} ELSE {})]

\* AllocatorRoot::find_insertion_point, the loop from previous_node_ptr on;
\* fuel bounds the number of iterations (a walk that outlasts it revisits an
\* address and never returns)
RECURSIVE insertion_loop(_, _, _, _, _)
insertion_loop(ns, block_ptr, previous_node_ptr, g, fuel) ==
    LET previous_node == ReadNode(ns, previous_node_ptr, g)
    IN  IF fuel = 0
        THEN [hang |-> TRUE, previous |-> None, next |-> None]
        ELSE IF previous_node.next_ptr = None
        THEN [hang |-> FALSE, previous |-> Some(previous_node_ptr), next |-> None]
        ELSE IF block_ptr < previous_node.next_ptr[1]
        THEN [hang |-> FALSE, previous |-> Some(previous_node_ptr),
              next |-> previous_node.next_ptr]
        ELSE insertion_loop(ns, block_ptr, previous_node.next_ptr[1], g, fuel - 1)

\* number of loop iterations after which an address must have repeated
Fuel(ns) == Cardinality(DOMAIN ns) + 3

\* find_insertion_point, mutated: the test of the block against the root is
\* missing
find_insertion_point_no_root_test(ns, block_ptr, root_ptr, g) ==
    insertion_loop(ns, block_ptr, root_ptr, g, Fuel(ns))

find_insertion_point(ns, block_ptr, root_ptr, g) ==
    IF block_ptr < root_ptr
    THEN [hang |-> FALSE, previous |-> None, next |-> Some(root_ptr)]
    ELSE insertion_loop(ns, block_ptr, root_ptr, g, Fuel(ns))

\* try_merge_nodes, mutated: the block is never merged with the next node
try_merge_nodes_prev_only(ns, block_ptr, block_size, previous_ptr, next_ptr, g) ==
    LET has_prev == previous_ptr # None
        previous == IF has_prev THEN ReadNode(ns, previous_ptr[1], g)
                    ELSE [size |-> 0, next_ptr |-> None]
        merge_prev == has_prev /\ block_ptr = previous_ptr[1] + previous.size
    IN  [node |-> [size |-> IF merge_prev THEN block_size + previous.size
                            ELSE block_size,
                   next_ptr |-> IF next_ptr # None THEN next_ptr
                                ELSE IF has_prev THEN previous.next_ptr ELSE None],
         dest |-> IF merge_prev THEN previous_ptr[1] ELSE block_ptr]

\* try_merge_nodes, mutated: a block merged with the previous node is still
\* written at its own address
try_merge_nodes_no_relocate(ns, block_ptr, block_size, previous_ptr, next_ptr, g) ==
    LET has_prev == previous_ptr # None
        previous == IF has_prev THEN ReadNode(ns, previous_ptr[1], g)
                    ELSE [size |-> 0, next_ptr |-> None]
        merge_prev == has_prev /\ block_ptr = previous_ptr[1] + previous.size
        size1 == IF merge_prev THEN block_size + previous.size ELSE block_size
        merge_next == next_ptr # None /\ block_ptr + block_size = next_ptr[1]
        next == IF merge_next THEN ReadNode(ns, next_ptr[1], g)
                ELSE [size |-> 0, next_ptr |-> None]
    IN  [node |-> [size |-> IF merge_next THEN size1 + next.size ELSE size1,
                   next_ptr |-> IF merge_next THEN next.next_ptr
                                ELSE IF next_ptr # None THEN next_ptr
                                ELSE IF has_prev THEN previous.next_ptr ELSE None],
         dest |-> block_ptr]

\* AllocatorRoot::try_merge_nodes: the Node to write and where to write it
try_merge_nodes(ns, block_ptr, block_size, previous_ptr, next_ptr, g) ==
    LET has_prev == previous_ptr # None
        previous == IF has_prev THEN ReadNode(ns, previous_ptr[1], g)
                    ELSE [size |-> 0, next_ptr |-> None]
        merge_prev == has_prev /\ block_ptr = previous_ptr[1] + previous.size
        new_ptr == IF merge_prev THEN previous_ptr[1] ELSE block_ptr
        size1 == IF merge_prev THEN block_size + previous.size ELSE block_size
        next1 == IF has_prev THEN previous.next_ptr ELSE None
        has_next == next_ptr # None
        merge_next == has_next /\ new_ptr + size1 = next_ptr[1]
        next == IF merge_next THEN ReadNode(ns, next_ptr[1], g)
                ELSE [size |-> 0, next_ptr |-> None]
    IN  [node |-> [size |-> IF merge_next THEN size1 + next.size ELSE size1,
                   next_ptr |-> IF merge_next THEN next.next_ptr
                                ELSE IF has_next THEN next_ptr ELSE next1],
         dest |-> new_ptr]

\* AllocatorRoot::create_free_node
create_free_node(h, block_ptr, initial_size, g) ==
    IF h.free_root = None
    THEN LET mem1 == WriteNode([nodes |-> h.nodes, metas |-> h.metas], block_ptr,
                               [size |-> initial_size, next_ptr |-> None])
         IN  [hang |-> FALSE, free_root |-> Some(block_ptr),
              nodes |-> mem1.nodes, metas |-> mem1.metas,
              writes |-> {<<block_ptr, NODE_LAYOUT_SIZE>>}]
    ELSE LET root_ptr == h.free_root[1]
             ip == find_insertion_point(h.nodes, block_ptr, root_ptr, g)
             m == try_merge_nodes(h.nodes, block_ptr, initial_size,
                                  ip.previous, ip.next, g)
             mem1 == WriteNode([nodes |-> h.nodes, metas |-> h.metas],
                               m.dest, m.node)
         IN  IF ip.hang
             THEN [hang |-> TRUE, free_root |-> h.free_root, nodes |-> h.nodes,
                   metas |-> h.metas, writes |-> {}]
             ELSE [hang |-> FALSE,
                   free_root |-> IF ip.previous = None THEN Some(m.dest)
                                 ELSE h.free_root,
                   nodes |-> mem1.nodes, metas |-> mem1.metas,
                   writes |-> {<<m.dest, NODE_LAYOUT_SIZE>>}]

\* -------------------------------------------------------------------- mod.rs
NoFit(kind, h) ==
    [kind |-> kind, free_root |-> h.free_root, nodes |-> h.nodes,
     metas |-> h.metas, ptr |-> -1, writes |-> {}, node_ptr |-> -1,
     specs |-> Err]

Fit(h, previous, node, node_ptr, specs) ==
    LET r == split_alloc(h, previous, node, specs)
    IN  [kind |-> "ok", free_root |-> r.free_root, nodes |-> r.nodes,
         metas |-> r.metas, ptr |-> r.ptr, writes |-> r.writes,
         node_ptr |-> node_ptr, specs |-> specs]

\* FreeListAllocator::alloc, the while loop over previous_node.next_ptr
RECURSIVE alloc_loop(_, _, _, _, _, _)
alloc_loop(h, size, align, previous_node, g, fuel) ==
    IF previous_node.next_ptr = None
    THEN NoFit("null", h)
    ELSE IF fuel = 0
    THEN NoFit("hang", h)
    ELSE LET node_ptr == previous_node.next_ptr[1]
             node == ReadNode(h.nodes, node_ptr, g)
             alloc_specs == try_get_alloc_specs(node, size, align, node_ptr)
         IN  IF alloc_specs.ok
             THEN Fit(h, Some(previous_node), node, node_ptr, alloc_specs)
             ELSE alloc_loop(h, size, align, node, g, fuel - 1)

\* alloc, mutated: the walk advances free_root itself past a node that
\* rejects the request
alloc_popping(h, size, align, g) ==
    IF h.free_root = None
    THEN NoFit("null", h)
    ELSE LET node_ptr == h.free_root[1]
             node == ReadNode(h.nodes, node_ptr, g)
             alloc_specs == try_get_alloc_specs(node, size, align, node_ptr)
         IN  IF alloc_specs.ok
             THEN Fit(h, None, node, node_ptr, alloc_specs)
             ELSE alloc_loop([h EXCEPT !.free_root = node.next_ptr], size, align,
                             node, g, Fuel(h.nodes))

\* FreeListAllocator::alloc (the lock is held for the whole call)
alloc(h, size, align, g) ==
    IF h.free_root = None
    THEN NoFit("null", h)
    ELSE LET node_ptr == h.free_root[1]
             node == ReadNode(h.nodes, node_ptr, g)
             alloc_specs == try_get_alloc_specs(node, size, align, node_ptr)
         IN  IF alloc_specs.ok
             THEN Fit(h, None, node, node_ptr, alloc_specs)
             ELSE alloc_loop(h, size, align, node, g, Fuel(h.nodes))

\* FreeListAllocator::dealloc: the block recovered from the metadata
dealloc_block(ms, ptr, size, gm) ==
    LET metadata == ReadMeta(ms, ptr + size, gm)
    IN  [block_ptr |-> ptr - metadata.align_padding,
         block_size |-> metadata.align_padding + size
                          + ALLOCATION_METADATA_LAYOUT_SIZE
                          + metadata.fill_padding]

dealloc(h, ptr, size, g, gm) ==
    LET b == dealloc_block(h.metas, ptr, size, gm)
    IN  create_free_node(h, b.block_ptr, b.block_size, g)

\* ------------------------------------------------------------ state machine
Heap == [free_root |-> free_root, nodes |-> nodes, metas |-> metas]

\* payload range of a live allocation overlaps the extent <<a, len>>
InPayload(l, w) == Overlaps(l.ptr, l.size, w[1], w[2])

\* `last` records the call that produced the current state: for alloc the
\* returned pointer (-1 for null), the node allocated from and the consumed
\* block size; for dealloc the same three of the allocation freed, plus the
\* block the call recovered from the metadata; in_live tells whether the call
\* wrote a header or metadata over the payload of another live allocation.
NoOp == [op |-> "new", ptr |-> -1, node |-> -1, bsize |-> 0,
         block_ptr |-> -1, block_size |-> 0, in_live |-> FALSE]

\* FreeListAllocator::new, after the lazy initialisation has run: one root
\* node covering the whole arena
FreeListNew ==
    /\ free_root = Some(0)
    /\ nodes = (0 :> [size |-> S, next_ptr |-> None])
    /\ metas = <<>>
    /\ live = {}
    /\ status = "ok"
    /\ last = NoOp
    /\ fresh = TRUE
    /\ calls = 0

\* arguments of find_insertion_point and try_merge_nodes: address-sorted free
\* lists of nodes that lie in the arena and do not overlap, and a block that
\* overlaps none of them
ListNodeAddrs == {0, 24, 48, 72, 96}
ListNodeSizes == {24, 48}
BlockAddrs == {0, 24, 48, 72, 96, 104}

Lowest(A) == CHOOSE x \in A : \A y \in A : x <= y
Highest(A) == CHOOSE x \in A : \A y \in A : x >= y

\* the list of the nodes at the addresses of A with the sizes sz, each node
\* linked to the next higher address
SortedList(A, sz) ==
    [a \in A |->
        [size |-> sz[a],
         next_ptr |-> IF {b \in A : b > a} = {} THEN None
                      ELSE Some(Lowest({b \in A : b > a}))]]

ListInputs ==
    UNION { { [nodes |-> SortedList(A, sz), root |-> Lowest(A),
               block_ptr |-> b, block_size |-> bs] :
                 sz \in {f \in [A -> ListNodeSizes] :
                            \A a \in A :
                               /\ InArena(a, f[a])
                               /\ \A c \in A \ {a} : ~Overlaps(a, f[a], c, f[c])},
                 b \in BlockAddrs, bs \in ListNodeSizes }
            : A \in SUBSET ListNodeAddrs \ {{}} }

\* the block lies in the arena and overlaps no node of the list
BlockFree(in) ==
    /\ InArena(in.block_ptr, in.block_size)
    /\ \A a \in DOMAIN in.nodes :
          ~Overlaps(a, in.nodes[a].size, in.block_ptr, in.block_size)

IdleListInput ==
    [nodes |-> (0 :> [size |-> S, next_ptr |-> None]), root |-> 0,
     block_ptr |-> 0, block_size |-> 0]

\* the state after construction of both allocators, no call being made
Init ==
    /\ FreeListNew
    /\ BumpNew
    /\ LockNew
    /\ spec_in = IdleSpecsInput
    /\ spec_out = None
    /\ list_in = IdleListInput
    /\ list_out = None

\* live allocations are told apart by a copy number n when alloc returned the
\* very same allocation more than once
Copies(lv, ptr, size, node, bsize) ==
    Cardinality({l \in lv : l.ptr = ptr /\ l.size = size /\ l.node = node
                              /\ l.bsize = bsize})

\* a caller calls alloc(Layout(size, align))
Alloc(size, align, g) ==
    /\ UNCHANGED <<bump_vars, pure_vars>>
    /\ status = "ok"
    /\ calls < MaxCalls
    /\ calls' = calls + 1
    /\ Cardinality(live) < MaxLive
    /\ LET r == alloc(Heap, size, align, g)
           consumed == r.specs.padding + r.specs.size
                         + ALLOCATION_METADATA_LAYOUT_SIZE + r.specs.fill_padding
           oob == \E w \in r.writes : ~InArena(w[1], w[2])
           op == [NoOp EXCEPT !.op = "alloc"]
           new == [ptr |-> r.ptr, size |-> size, node |-> r.node_ptr,
                   bsize |-> consumed,
                   n |-> 1 + Copies(live, r.ptr, size, r.node_ptr, consumed)]
       IN  CASE r.kind = "hang" ->
                  /\ status' = "hang"
                  /\ last' = op
                  /\ UNCHANGED <<free_root, nodes, metas, live, fresh>>
             [] r.kind = "null" ->
                  /\ last' = op
                  /\ free_root' = r.free_root
                  /\ nodes' = KeepNodes(r.free_root, r.nodes)
                  /\ metas' = KeepMetas(live, r.metas)
                  /\ UNCHANGED <<live, status, fresh>>
             [] r.kind = "ok" /\ oob ->
                  /\ status' = "oob"
                  /\ last' = [op EXCEPT !.ptr = r.ptr, !.node = r.node_ptr,
                                        !.bsize = consumed]
                  /\ UNCHANGED <<free_root, nodes, metas, live, fresh>>
             [] r.kind = "ok" /\ ~oob ->
                  /\ free_root' = r.free_root
                  /\ live' = live \cup {new}
                  /\ nodes' = KeepNodes(r.free_root, r.nodes)
                  /\ metas' = KeepMetas(live', r.metas)
                  /\ last' = [op EXCEPT !.ptr = r.ptr, !.node = r.node_ptr,
                                        !.bsize = consumed,
                                        !.in_live = \E l \in live : \E w \in r.writes :
                                                        InPayload(l, w)]
                  /\ UNCHANGED <<status, fresh>>

\* a caller calls dealloc(ptr, Layout(size, _)) on one of its live allocations
Dealloc(l, g, gm) ==
    /\ UNCHANGED <<bump_vars, pure_vars>>
    /\ status = "ok"
    /\ calls < MaxCalls
    /\ calls' = calls + 1
    /\ l \in live
    /\ l.n = Copies(live, l.ptr, l.size, l.node, l.bsize)
    /\ LET b == dealloc_block(metas, l.ptr, l.size, gm)
           r == dealloc(Heap, l.ptr, l.size, g, gm)
           oob == \E w \in r.writes : ~InArena(w[1], w[2])
           op == [NoOp EXCEPT !.op = "dealloc", !.ptr = l.ptr,
                              !.node = l.node, !.bsize = l.bsize,
                              !.block_ptr = b.block_ptr,
                              !.block_size = b.block_size]
       IN  IF r.hang \/ oob
           THEN /\ status' = IF r.hang THEN "hang" ELSE "oob"
                /\ last' = op
                /\ UNCHANGED <<free_root, nodes, metas, live, fresh>>
           ELSE /\ free_root' = r.free_root
                /\ live' = live \ {l}
                /\ nodes' = KeepNodes(r.free_root, r.nodes)
                /\ metas' = KeepMetas(live', r.metas)
                /\ last' = [op EXCEPT !.in_live = \E k \in live \ {l} :
                                          \E w \in r.writes : InPayload(k, w)]
                /\ fresh' = FALSE
                /\ UNCHANGED status

\* a caller stores a value in the payload bytes [ptr, ptr+size) it owns
CallerWrite(l) ==
    /\ UNCHANGED <<bump_vars, pure_vars>>
    /\ status = "ok"
    /\ l \in live
    /\ nodes' = KeepNodes(free_root, ClobberNodes(nodes, l.ptr, l.size))
    /\ metas' = ClobberMetas(metas, l.ptr, l.size)
    /\ <<nodes', metas'>> # <<nodes, metas>>
    /\ last' = [NoOp EXCEPT !.op = "write", !.ptr = l.ptr]
    /\ UNCHANGED <<free_root, live, status, fresh, calls>>

\* one caller at a time: the lock is always free when a call begins and is
\* released when it returns
Next ==
    \/ \E size \in Sizes, align \in Aligns, g \in GarbageNodes :
          Alloc(size, align, g) /\ UNCHANGED lock_vars
    \/ \E l \in live, g \in GarbageNodes, gm \in GarbageMetas :
          Dealloc(l, g, gm) /\ UNCHANGED lock_vars
    \/ \E l \in live : CallerWrite(l) /\ UNCHANGED lock_vars

all_vars == <<vars, bump_vars, lock_vars, pure_vars>>

Spec == Init /\ [][Next]_all_vars

\* ------------------------------------------------ mod.rs, several threads
\* alloc and dealloc called from the threads of LockThreads: each call is
\* `self.allocator.lock().unwrap()` followed by the whole operation, the
\* MutexGuard being dropped when the function returns. The writes of the
\* callers to their own payloads are not steps of the allocator and are left
\* out.
\* thread t calls alloc or dealloc and reaches lock()
LockCall(t) ==
    /\ lpc[t] = "idle"
    /\ status # "oob"
    /\ calls + Cardinality({u \in LockThreads : lpc[u] # "idle"}) < LockMaxCalls
    /\ lpc' = [lpc EXCEPT ![t] = "waiting"]
    /\ UNCHANGED <<mutex, overlapped, vars, bump_vars, pure_vars>>

\* lock(), mutated: the lock is taken whoever holds it
LockAcquire_unguarded(t) ==
    /\ lpc[t] = "waiting"
    /\ mutex' = t
    /\ lpc' = [lpc EXCEPT ![t] = "holding"]
    /\ overlapped' = [overlapped EXCEPT ![t] = FALSE]
    /\ UNCHANGED <<vars, bump_vars, pure_vars>>

\* lock() returns the guard: the Mutex was free
LockAcquire(t) ==
    /\ lpc[t] = "waiting"
    /\ mutex = 0
    /\ mutex' = t
    /\ lpc' = [lpc EXCEPT ![t] = "holding"]
    /\ overlapped' = [overlapped EXCEPT ![t] = FALSE]
    /\ UNCHANGED <<vars, bump_vars, pure_vars>>

\* the end of the operation of thread t: the guard is dropped when the
\* function returns; an operation that never returns (a walk that does not
\* end, status "hang") keeps the lock
Release(t) ==
    /\ IF status' = "ok"
       THEN /\ mutex' = 0
            /\ lpc' = [lpc EXCEPT ![t] = "idle"]
       ELSE UNCHANGED <<mutex, lpc>>
    /\ overlapped' = [u \in LockThreads |->
                         IF u # t /\ lpc[u] = "holding" THEN TRUE
                         ELSE overlapped[u]]

\* alloc, from the lock taken to the return
LockedAlloc(t, size, align, g) ==
    /\ lpc[t] = "holding"
    /\ Alloc(size, align, g)
    /\ Release(t)

\* dealloc, from the lock taken to the return
LockedDealloc(t, l, g, gm) ==
    /\ lpc[t] = "holding"
    /\ Dealloc(l, g, gm)
    /\ Release(t)

LockNext ==
    \/ \E t \in LockThreads : LockCall(t)
    \/ \E t \in LockThreads : LockAcquire(t)
    \/ \E t \in LockThreads, size \in Sizes, align \in Aligns, g \in GarbageNodes :
          LockedAlloc(t, size, align, g)
    \/ \E t \in LockThreads, l \in live, g \in GarbageNodes, gm \in GarbageMetas :
          LockedDealloc(t, l, g, gm)

LockSpec == Init /\ [][LockNext]_all_vars

\* ------------------------------------------------------------------- claims
\* addresses of the free nodes reachable from free_root
ListAddrs == Reach(nodes, free_root, {})

LiveDisjoint ==
    \A l1 \in live : \A l2 \in live :
        l1 # l2 => ~Overlaps(l1.ptr, l1.size, l2.ptr, l2.size)

\* C1: the payload ranges of all live allocations are pairwise disjoint
C1_NoAliasing == LiveDisjoint

\* C2: starting from a fresh arena, with no dealloc so far, the ranges
\* returned by the successful allocs are pairwise disjoint
C2_NoOverlapFresh == fresh => LiveDisjoint

C2_Witness == fresh /\ Cardinality(live) >= 3 /\ status = "ok"

C4_NoAdjacentPair ==
    (last.op = "dealloc" /\ status = "ok") =>
        \A a \in ListAddrs : \A b \in ListAddrs : a + nodes[a].size # b

\* C5: after dealloc the freed block is covered by a reachable free node
C5_FreedBlockReachable ==
    (last.op = "dealloc" /\ status = "ok") =>
        \E a \in ListAddrs :
            a <= last.node /\ last.node + last.bsize <= a + nodes[a].size

\* C6: dealloc recovers the block start and size that alloc consumed
C6_MetadataRoundTrip ==
    last.op = "dealloc" =>
        last.block_ptr = last.node /\ last.block_size = last.bsize

\* C7: every consumed block is at least one Node header large
C7_Reservation ==
    /\ \A l \in live : l.bsize >= NODE_LAYOUT_SIZE
    /\ (last.op = "alloc" /\ last.ptr # -1) => last.bsize >= NODE_LAYOUT_SIZE

C7_Witness ==
    /\ last.op = "alloc" /\ last.ptr # -1 /\ status = "ok"
    /\ last.bsize = NODE_LAYOUT_SIZE

\* C8: no header or metadata is written over a live payload
C8_NoWriteInLivePayload == ~last.in_live

\* C9: free nodes and consumed blocks lie inside the arena
C9_InBounds ==
    /\ status # "oob"
    /\ \A a \in ListAddrs : InArena(a, nodes[a].size)
    /\ \A l \in live : InArena(l.node, l.bsize)

C11_AlignedPointer ==
    [][\A size \in Sizes : \A align \in Aligns : \A g \in GarbageNodes :
          (Alloc(size, align, g) /\ last'.ptr # -1) =>
              LET padding == (align - (last'.node % align)) % align
              IN  /\ last'.ptr % align = 0
                  /\ last'.ptr = last'.node + padding
                  /\ status' = "ok" =>
                        /\ last'.ptr + size \in DOMAIN metas'
                        /\ metas'[last'.ptr + size].align_padding = padding]_vars

C11_Witness ==
    /\ last.op = "alloc" /\ last.ptr # -1 /\ status = "ok"
    /\ last.ptr # last.node
    /\ \E l \in live : l.ptr = last.ptr /\ l.ptr + l.size \in DOMAIN metas
                         /\ metas[l.ptr + l.size].align_padding = last.ptr - last.node

C20_FirstAllocAsStated ==
    [][\A g \in GarbageNodes :
          (calls = 0 /\ Alloc(4, 1, g)) =>
              /\ last'.ptr = 0
              /\ free_root' = Some(4 + ALLOCATION_METADATA_LAYOUT_SIZE)
              /\ nodes' = (4 + ALLOCATION_METADATA_LAYOUT_SIZE :>
                            [size |-> S - 4 - ALLOCATION_METADATA_LAYOUT_SIZE,
                             next_ptr |-> None])]_vars

\* C20 amended: on a fresh 128-byte arena alloc(4, 1) returns offset 0 and
\* the remaining free space becomes one free node at the offset of one Node
\* header (4 + metadata size + fill padding, the consumed block being
\* rounded up to the Node header size), of size 128 - Node header size
C20_FirstAlloc ==
    [][\A g \in GarbageNodes :
          (calls = 0 /\ Alloc(4, 1, g)) =>
              /\ last'.ptr = 0
              /\ last'.bsize = NODE_LAYOUT_SIZE
              /\ free_root' = Some(NODE_LAYOUT_SIZE)
              /\ nodes' = (NODE_LAYOUT_SIZE :>
                            [size |-> S - NODE_LAYOUT_SIZE,
                             next_ptr |-> None])]_vars

C20_Witness ==
    /\ calls = 1 /\ last.op = "alloc" /\ last.ptr = 0 /\ status = "ok"
    /\ live = {[ptr |-> 0, size |-> 4, node |-> 0, bsize |-> NODE_LAYOUT_SIZE,
                n |-> 1]}
    /\ free_root = Some(NODE_LAYOUT_SIZE)

\* ================================================================ bumper.rs
\* alloc, the closure given to fetch_update: from the cursor value
\* `cursor` it yields None, or the offset of the allocation and the new
\* cursor value
alloc_padding(cursor, align) == (align - (cursor % align)) % align

\* the closure, mutated: only the first test (size against the space left)
\* is made
fetch_update_closure_size_only(cursor, size, align) ==
    IF size > N - cursor
    THEN None
    ELSE Some([alloc_offset |-> cursor + alloc_padding(cursor, align),
               alloc_end |-> cursor + alloc_padding(cursor, align) + size])

\* the closure, mutated: no test against the capacity at all
fetch_update_closure_unchecked(cursor, size, align) ==
    Some([alloc_offset |-> cursor + alloc_padding(cursor, align),
          alloc_end |-> cursor + alloc_padding(cursor, align) + size])

fetch_update_closure(cursor, size, align) ==
    IF size > N - cursor
    THEN None
    ELSE LET alloc_offset == cursor + alloc_padding(cursor, align)
             alloc_end == alloc_offset + size
         IN  IF alloc_end <= N
             THEN Some([alloc_offset |-> alloc_offset, alloc_end |-> alloc_end])
             ELSE None

\* compare-and-exchange of fetch_update, mutated: the new cursor is stored
\* whatever the current one is
compare_exchange_blind(current, expected) == TRUE

\* compare-and-exchange of fetch_update: succeeds when the cursor still has
\* the value the closure was given
compare_exchange(current, expected) == current = expected

\* an allocation of the thread is in flight
InFlight(th) == th.pc \in {"cas", "write"}

\* a step of an allocation of thread t: every dealloc_all in progress in
\* another thread has no longer run with no allocation in flight
Disturb(ths, t) ==
    [u \in Threads |->
        IF u # t /\ ths[u].pc \in {"wipe", "store"}
        THEN [ths[u] EXCEPT !.quiet = FALSE]
        ELSE ths[u]]

\* thread t enters alloc (op "alloc": GlobalAlloc::alloc called directly;
\* op "allocate": called by allocate) and fetch_update loads the cursor
BeginAlloc(t, op, size, align) ==
    /\ UNCHANGED <<vars, lock_vars, pure_vars>>
    /\ threads[t].pc = "idle"
    /\ threads' = [Disturb(threads, t) EXCEPT ![t] =
                      [IdleThread EXCEPT !.pc = "cas", !.op = op, !.size = size,
                                         !.align = align, !.seen = allocated]]
    /\ bump_last' = [NoBumpOp EXCEPT !.op = "begin"]
    /\ UNCHANGED <<allocated, arena, ranges>>

\* the closure returns None: fetch_update gives Err and alloc, called
\* directly, returns null
AllocFail(t) ==
    /\ UNCHANGED <<vars, lock_vars, pure_vars>>
    /\ threads[t].pc = "cas"
    /\ threads[t].op = "alloc"
    /\ LET th == threads[t]
       IN  /\ fetch_update_closure(th.seen, th.size, th.align) = None
           /\ threads' = [Disturb(threads, t) EXCEPT ![t] = IdleThread]
           /\ bump_last' = [NoBumpOp EXCEPT
                               !.op = "alloc_fail", !.size = th.size,
                               !.align = th.align, !.c = th.seen,
                               !.before = allocated]
    /\ UNCHANGED <<allocated, arena, ranges>>

\* alloc failing inside allocate, mutated: the null check is missing and
\* allocate goes on to write the value
AllocatePanic_unchecked(t) ==
    /\ UNCHANGED <<vars, lock_vars, pure_vars>>
    /\ threads[t].pc = "cas"
    /\ threads[t].op = "allocate"
    /\ fetch_update_closure(threads[t].seen, threads[t].size, threads[t].align) = None
    /\ threads' = [Disturb(threads, t) EXCEPT ![t] =
                      [threads[t] EXCEPT !.pc = "write", !.alloc_offset = 0]]
    /\ bump_last' = [NoBumpOp EXCEPT !.op = "alloc_fail", !.size = threads[t].size,
                                     !.align = threads[t].align,
                                     !.c = threads[t].seen, !.before = allocated]
    /\ UNCHANGED <<allocated, arena, ranges>>

\* allocate: the alloc it calls returns null (the closure returns None) and
\* allocate panics
AllocatePanic(t) ==
    /\ UNCHANGED <<vars, lock_vars, pure_vars>>
    /\ threads[t].pc = "cas"
    /\ threads[t].op = "allocate"
    /\ LET th == threads[t]
       IN  /\ fetch_update_closure(th.seen, th.size, th.align) = None
           /\ threads' = [Disturb(threads, t) EXCEPT ![t] =
                             [IdleThread EXCEPT !.pc = "panicked"]]
           /\ bump_last' = [NoBumpOp EXCEPT
                               !.op = "panic", !.size = th.size,
                               !.align = th.align, !.c = th.seen,
                               !.before = allocated]
    /\ UNCHANGED <<allocated, arena, ranges>>

\* the closure returns Some(alloc_end) and the compare-and-exchange succeeds:
\* alloc returns arena_ptr + alloc_offset
CasSuccess(t) ==
    /\ UNCHANGED <<vars, lock_vars, pure_vars>>
    /\ threads[t].pc = "cas"
    /\ LET th == threads[t]
           r == fetch_update_closure(th.seen, th.size, th.align)
       IN  /\ r # None
           /\ compare_exchange(allocated, th.seen)
           /\ allocated' = r[1].alloc_end
           /\ ranges' = ranges \cup
                  {<<r[1].alloc_offset, th.size,
                     1 + Cardinality({x \in ranges : x[1] = r[1].alloc_offset
                                                      /\ x[2] = th.size})>>}
           /\ threads' = [Disturb(threads, t) EXCEPT ![t] =
                             IF th.op = "allocate"
                             THEN [th EXCEPT !.pc = "write",
                                             !.alloc_offset = r[1].alloc_offset]
                             ELSE IdleThread]
           /\ bump_last' = [NoBumpOp EXCEPT
                               !.op = "alloc_ok", !.size = th.size,
                               !.align = th.align, !.c = th.seen,
                               !.before = allocated,
                               !.offset = r[1].alloc_offset]
    /\ UNCHANGED arena

\* the failed compare-and-exchange, mutated: the closure is called again
\* with the cursor value of the failed attempt
CasRetry_stale(t) ==
    /\ UNCHANGED <<vars, lock_vars, pure_vars>>
    /\ threads[t].pc = "cas"
    /\ fetch_update_closure(threads[t].seen, threads[t].size, threads[t].align) # None
    /\ ~compare_exchange(allocated, threads[t].seen)
    /\ threads' = Disturb(threads, t)
    /\ bump_last' = [NoBumpOp EXCEPT !.op = "retry"]
    /\ UNCHANGED <<allocated, arena, ranges>>

\* the closure returns Some(alloc_end) and the compare-and-exchange fails:
\* fetch_update calls the closure again with the cursor value it found (the
\* closure assigns alloc_offset before any use, so the value this attempt
\* left in it is never read and is not kept)
CasRetry(t) ==
    /\ UNCHANGED <<vars, lock_vars, pure_vars>>
    /\ threads[t].pc = "cas"
    /\ LET th == threads[t]
           r == fetch_update_closure(th.seen, th.size, th.align)
       IN  /\ r # None
           /\ ~compare_exchange(allocated, th.seen)
           /\ threads' = [Disturb(threads, t) EXCEPT ![t] =
                             [th EXCEPT !.seen = allocated]]
           /\ bump_last' = [NoBumpOp EXCEPT !.op = "retry"]
    /\ UNCHANGED <<allocated, arena, ranges>>

\* allocate, after alloc returned a pointer: ptr::write(ptr, value)
WriteValue(t) ==
    /\ UNCHANGED <<vars, lock_vars, pure_vars>>
    /\ threads[t].pc = "write"
    /\ LET th == threads[t]
       IN  /\ arena' = [i \in 0..(N - 1) |->
                          IF th.alloc_offset <= i /\ i < th.alloc_offset + th.size
                          THEN 1 ELSE arena[i]]
           /\ threads' = [Disturb(threads, t) EXCEPT ![t] = IdleThread]
           /\ bump_last' = [NoBumpOp EXCEPT !.op = "write"]
    /\ UNCHANGED <<allocated, ranges>>

\* dealloc, mutated: the cursor is moved back to the start of the allocation
DeallocObject_rewind(t, r) ==
    /\ UNCHANGED <<vars, lock_vars, pure_vars>>
    /\ threads[t].pc = "idle"
    /\ r \in ranges
    /\ allocated' = r[1]
    /\ bump_last' = [NoBumpOp EXCEPT !.op = "dealloc"]
    /\ UNCHANGED <<arena, threads, ranges>>

\* GlobalAlloc::dealloc of an allocation handed out earlier: an empty body
DeallocObject(t, r) ==
    /\ UNCHANGED <<vars, lock_vars, pure_vars>>
    /\ threads[t].pc = "idle"
    /\ r \in ranges
    /\ bump_last' = [NoBumpOp EXCEPT !.op = "dealloc"]
    /\ UNCHANGED <<allocated, arena, threads, ranges>>

\* dealloc_all(wipe_memory): the cursor is loaded; when it is 0 the call
\* returns at once
BeginReset(t, wipe_memory) ==
    /\ UNCHANGED <<vars, lock_vars, pure_vars>>
    /\ threads[t].pc = "idle"
    /\ IF allocated = 0
       THEN /\ bump_last' = [NoBumpOp EXCEPT !.op = "reset_empty",
                                             !.wipe = wipe_memory]
            /\ UNCHANGED threads
       ELSE /\ threads' = [threads EXCEPT ![t] =
                              [IdleThread EXCEPT
                                  !.pc = IF wipe_memory THEN "wipe" ELSE "store",
                                  !.op = "dealloc_all", !.seen = allocated,
                                  !.wipe = wipe_memory,
                                  !.quiet = \A u \in Threads \ {t} :
                                                ~InFlight(threads[u])]]
            /\ bump_last' = [NoBumpOp EXCEPT !.op = "reset_begin"]
    /\ UNCHANGED <<allocated, arena, ranges>>

\* the wipe of dealloc_all, mutated: one byte short
Wipe_short(t) ==
    /\ UNCHANGED <<vars, lock_vars, pure_vars>>
    /\ threads[t].pc = "wipe"
    /\ arena' = [i \in 0..(N - 1) |->
                    IF i < threads[t].seen - 1 THEN 0 ELSE arena[i]]
    /\ threads' = [threads EXCEPT ![t].pc = "store"]
    /\ bump_last' = [NoBumpOp EXCEPT !.op = "wipe"]
    /\ UNCHANGED <<allocated, ranges>>

\* dealloc_all, ptr::write_bytes(ptr, 0, size)
Wipe(t) ==
    /\ UNCHANGED <<vars, lock_vars, pure_vars>>
    /\ threads[t].pc = "wipe"
    /\ arena' = [i \in 0..(N - 1) |->
                    IF i < threads[t].seen THEN 0 ELSE arena[i]]
    /\ threads' = [threads EXCEPT ![t].pc = "store"]
    /\ bump_last' = [NoBumpOp EXCEPT !.op = "wipe"]
    /\ UNCHANGED <<allocated, ranges>>

\* the end of dealloc_all, mutated: the arena is zeroed whatever wipe_memory
Store_wiping(t) ==
    /\ UNCHANGED <<vars, lock_vars, pure_vars>>
    /\ threads[t].pc = "store"
    /\ allocated' = 0
    /\ ranges' = {}
    /\ arena' = [i \in 0..(N - 1) |-> IF i < threads[t].seen THEN 0 ELSE arena[i]]
    /\ threads' = [threads EXCEPT ![t] = IdleThread]
    /\ bump_last' = [NoBumpOp EXCEPT !.op = "reset", !.wipe = threads[t].wipe,
                                     !.c = threads[t].seen,
                                     !.before = allocated,
                                     !.quiet = threads[t].quiet]

\* dealloc_all, self.allocated.store(0)
Store(t) ==
    /\ UNCHANGED <<vars, lock_vars, pure_vars>>
    /\ threads[t].pc = "store"
    /\ allocated' = 0
    /\ ranges' = {}
    /\ threads' = [threads EXCEPT ![t] = IdleThread]
    /\ bump_last' = [NoBumpOp EXCEPT !.op = "reset", !.wipe = threads[t].wipe,
                                     !.c = threads[t].seen,
                                     !.before = allocated,
                                     !.quiet = threads[t].quiet]
    /\ UNCHANGED arena

BumpNext ==
    \/ \E t \in Threads, l \in Layouts : BeginAlloc(t, "alloc", l[1], l[2])
    \/ \E t \in Threads, l \in ValueLayouts : BeginAlloc(t, "allocate", l[1], l[2])
    \/ \E t \in Threads : AllocFail(t)
    \/ \E t \in Threads : AllocatePanic(t)
    \/ \E t \in Threads : CasSuccess(t)
    \/ \E t \in Threads : CasRetry(t)
    \/ \E t \in Threads : WriteValue(t)
    \/ \E t \in Threads, r \in ranges : DeallocObject(t, r)
    \/ \E t \in Threads, wipe_memory \in BOOLEAN : BeginReset(t, wipe_memory)
    \/ \E t \in Threads : Wipe(t)
    \/ \E t \in Threads : Store(t)

BumpSpec == Init /\ [][BumpNext]_all_vars

\* alloc and allocate called from several threads, dealloc_all never called
BumpAllocNext ==
    \/ \E t \in Threads, l \in Layouts : BeginAlloc(t, "alloc", l[1], l[2])
    \/ \E t \in Threads, l \in ValueLayouts : BeginAlloc(t, "allocate", l[1], l[2])
    \/ \E t \in Threads : AllocFail(t)
    \/ \E t \in Threads : AllocatePanic(t)
    \/ \E t \in Threads : CasSuccess(t)
    \/ \E t \in Threads : CasRetry(t)
    \/ \E t \in Threads : WriteValue(t)
    \/ \E t \in Threads, r \in ranges : DeallocObject(t, r)

\* the next step of a call of thread t that has begun
AllocStep(t) ==
    \/ AllocFail(t)
    \/ AllocatePanic(t)
    \/ CasSuccess(t)
    \/ CasRetry(t)
    \/ WriteValue(t)

\* every thread that is inside a call is scheduled again. The
\* compare_exchange_weak of fetch_update may also fail with the cursor
\* unchanged; the closure is then run again on the same value, which leaves
\* the thread where it is, and such failures are taken not to repeat for ever.
BumpFairSpec ==
    /\ Init
    /\ [][BumpAllocNext]_all_vars
    /\ \A t \in Threads : WF_all_vars(AllocStep(t))

\* ------------------------------------------------------ claims on bumper.rs
\* C13: alloc(size, align) working from the cursor value c, with
\* padding = (align - (c % align)) % align: when c + padding + size <= N it
\* returns offset c + padding and the cursor becomes c + padding + size;
\* otherwise (also when size alone fits and the padding does not) it fails
\* and the call leaves the cursor as it was
C13_AllocOutcome ==
    LET c == bump_last.c
        padding == (bump_last.align - (c % bump_last.align)) % bump_last.align
    IN  /\ bump_last.op = "alloc_ok" =>
              /\ c + padding + bump_last.size <= N
              /\ bump_last.before = c
              /\ bump_last.offset = c + padding
              /\ allocated = c + padding + bump_last.size
        /\ bump_last.op \in {"alloc_fail", "panic"} =>
              /\ c + padding + bump_last.size > N
              /\ bump_last.offset = -1
              /\ allocated = bump_last.before

C13_Witness ==
    /\ bump_last.op = "alloc_fail"
    /\ bump_last.size <= N - bump_last.c
    /\ allocated = bump_last.c

\* C14: with no reset in between, the ranges returned by the successful
\* allocs of all threads are pairwise disjoint, and the offset a call returns
\* is the one computed from the cursor value its successful
\* compare-and-exchange found in place
C14_ConcurrentDisjoint ==
    /\ \A r1 \in ranges : \A r2 \in ranges :
          r1 # r2 => ~Overlaps(r1[1], r1[2], r2[1], r2[2])
    /\ bump_last.op = "alloc_ok" =>
          /\ bump_last.offset =
                bump_last.before + alloc_padding(bump_last.before, bump_last.align)
          /\ \E r \in ranges : r[1] = bump_last.offset /\ r[2] = bump_last.size

C14_Witness ==
    /\ bump_last.op = "alloc_ok"
    /\ Cardinality(ranges) >= 2
    /\ \E t \in Threads : threads[t].pc = "cas" /\ threads[t].seen < bump_last.before

\* C15: the cursor always lies in 0..N, every successful alloc returns a
\* range inside the arena, and the subtraction N - cursor made by the closure
\* never goes below zero
C15_CursorInBounds ==
    /\ 0 <= allocated /\ allocated <= N
    /\ \A r \in ranges : 0 <= r[1] /\ r[1] + r[2] <= N
    /\ bump_last.op = "alloc_ok" =>
          0 <= bump_last.offset /\ bump_last.offset + bump_last.size <= N
    /\ \A t \in Threads : threads[t].pc = "cas" => N - threads[t].seen >= 0

C15_Witness ==
    /\ bump_last.op = "alloc_ok"
    /\ allocated = N
    /\ bump_last.offset + bump_last.size = N

\* C16: the cursor decreases only in the store of a reset; any other change
\* of it is the success of an alloc, which raises it; a per-object dealloc
\* leaves the cursor and the arena bytes as they were
C16_CursorMonotone ==
    [][/\ allocated' < allocated => bump_last'.op = "reset"
       /\ allocated' > allocated => bump_last'.op = "alloc_ok"
       /\ \A t \in Threads : \A r \in ranges :
             DeallocObject(t, r) => (allocated' = allocated /\ arena' = arena)
       /\ bump_last'.op = "dealloc" => (allocated' = allocated /\ arena' = arena)
      ]_bump_vars

C16_Witness ==
    /\ bump_last.op = "dealloc"
    /\ allocated > 0
    /\ ranges # {}

\* C17: a reset that ran with no allocation in flight leaves the cursor at 0,
\* so that the next alloc starts from offset 0; with wipe_memory every byte
\* below the cursor value the reset found is zero afterwards
C17_ResetRewinds ==
    /\ (bump_last.op = "reset" /\ bump_last.quiet) =>
          /\ allocated = 0
          /\ bump_last.wipe => \A i \in 0..(N - 1) : i < bump_last.c => arena[i] = 0
    /\ allocated = 0 =>
          \A l \in Layouts \cup ValueLayouts :
              LET r == fetch_update_closure(allocated, l[1], l[2])
              IN  r # None => r[1].alloc_offset = 0

C17_Witness ==
    /\ bump_last.op = "reset" /\ bump_last.quiet /\ bump_last.wipe
    /\ bump_last.c = N
    /\ \A i \in 0..(N - 1) : arena[i] = 0

\* C18: a reset changes arena bytes only when wipe_memory is set and the
\* cursor it loaded is not 0; a reset without wipe_memory leaves every byte
\* as it was; a reset of an empty arena leaves the bytes and the cursor as
\* they were
C18_ResetFrame ==
    [][\A t \in Threads :
          /\ (Wipe(t) \/ Store(t)) =>
                (arena' # arena => (threads[t].wipe /\ threads[t].seen > 0))
          /\ \A wipe_memory \in BOOLEAN :
                BeginReset(t, wipe_memory) =>
                    /\ arena' = arena /\ allocated' = allocated
                    /\ allocated = 0 => threads' = threads
      ]_bump_vars

C18_Witness ==
    /\ bump_last.op = "reset" /\ ~bump_last.wipe /\ bump_last.quiet
    /\ bump_last.c > 0
    /\ \A i \in 0..(N - 1) : arena[i] = 1

\* C19: when the alloc made by allocate fails, allocate panics: the value is
\* not written, the cursor does not move and no reference is returned
C19_AllocatePanics ==
    [][\A t \in Threads :
          (/\ threads[t].pc = "cas" /\ threads[t].op = "allocate"
           /\ threads'[t] # threads[t]
           /\ fetch_update_closure(threads[t].seen, threads[t].size,
                                   threads[t].align) = None) =>
              /\ threads'[t].pc = "panicked"
              /\ bump_last'.op = "panic"
              /\ arena' = arena
              /\ allocated' = allocated
              /\ ranges' = ranges
      ]_bump_vars

C19_Witness ==
    /\ bump_last.op = "panic"
    /\ bump_last.size > N - bump_last.c
    /\ \E t \in Threads : threads[t].pc = "panicked"

\* --------------------------------------------- claims on the free list (2)
\* the two allocations of 32 bytes that fit in a fresh arena of 128 bytes
TwoOf32 ==
    {[ptr |-> 0, size |-> 32, node |-> 0,
      bsize |-> 32 + ALLOCATION_METADATA_LAYOUT_SIZE, n |-> 1],
     [ptr |-> 32 + ALLOCATION_METADATA_LAYOUT_SIZE, size |-> 32,
      node |-> 32 + ALLOCATION_METADATA_LAYOUT_SIZE,
      bsize |-> 32 + ALLOCATION_METADATA_LAYOUT_SIZE, n |-> 1]}

\* C21 as stated: on a fresh 128-byte arena three successive allocations of
\* 32 bytes all succeed, and an allocation made after them fails
C21_ThreeOf32AsStated ==
    [][\A g \in GarbageNodes :
          /\ (fresh /\ calls < 3 /\ (\A l \in live : l.size = 32)
                /\ Cardinality(live) = calls /\ Alloc(32, 1, g)) =>
                  last'.ptr # -1
          /\ (fresh /\ calls = 3 /\ Cardinality(live) = 3
                /\ (\A l \in live : l.size = 32)) =>
                  \A size \in Sizes : \A align \in Aligns :
                      Alloc(size, align, g) => last'.ptr = -1]_vars

\* C21 amended: on a fresh 128-byte arena the first two allocations of 32
\* bytes succeed (at 0 and 48, each consuming 32 + metadata size bytes); the
\* third fails and leaves the free node of 32 bytes at 96 in the list, from
\* which an allocation of 4 bytes is still served
C21_TwoOf32 ==
    [][\A g \in GarbageNodes :
          /\ (fresh /\ calls < 2 /\ live \subseteq TwoOf32
                /\ Cardinality(live) = calls /\ Alloc(32, 1, g)) =>
                  (last'.ptr # -1 /\ live' \subseteq TwoOf32)
          /\ (fresh /\ calls = 2 /\ live = TwoOf32) =>
                /\ free_root = Some(2 * (32 + ALLOCATION_METADATA_LAYOUT_SIZE))
                /\ ListAddrs = {2 * (32 + ALLOCATION_METADATA_LAYOUT_SIZE)}
                /\ nodes[2 * (32 + ALLOCATION_METADATA_LAYOUT_SIZE)] =
                      [size |-> S - 2 * (32 + ALLOCATION_METADATA_LAYOUT_SIZE),
                       next_ptr |-> None]
                /\ Alloc(32, 1, g) =>
                      (last'.ptr = -1 /\ free_root' = free_root /\ nodes' = nodes)
                /\ Alloc(4, 1, g) =>
                      (last'.ptr = 2 * (32 + ALLOCATION_METADATA_LAYOUT_SIZE)
                         /\ free_root' = None)]_vars

C21_Witness ==
    /\ fresh /\ calls = 3 /\ live = TwoOf32 /\ status = "ok"
    /\ last.op = "alloc" /\ last.ptr = -1
    /\ free_root = Some(2 * (32 + ALLOCATION_METADATA_LAYOUT_SIZE))

\* C25: alloc is first-fit: when it succeeds, the node it allocates from is
\* reachable from free_root and accepts the request, and every reachable node
\* at a lower address rejects it
C25_FirstFit ==
    [][\A size \in Sizes : \A align \in Aligns : \A g \in GarbageNodes :
          (Alloc(size, align, g) /\ last'.ptr # -1) =>
              /\ last'.node \in ListAddrs
              /\ try_get_alloc_specs(nodes[last'.node], size, align, last'.node).ok
              /\ \A a \in ListAddrs :
                    a < last'.node =>
                        ~try_get_alloc_specs(nodes[a], size, align, a).ok]_vars

\* C26: when alloc splits a node (remaining_size # 0), the node it allocated
\* from is replaced in the list by a new node of size remaining_size at
\* allocation pointer + size + metadata size + fill_padding, with
\* next = current.next: free_root points to the new node when current was
\* the root, and otherwise the next stored in the previous node does
C26_SplitLinksRemainder ==
    [][\A size \in Sizes : \A align \in Aligns : \A g \in GarbageNodes :
          (Alloc(size, align, g) /\ last'.ptr # -1 /\ status' = "ok") =>
              LET r == alloc(Heap, size, align, g)
                  new == r.ptr + size + ALLOCATION_METADATA_LAYOUT_SIZE
                           + r.specs.fill_padding
              IN  r.specs.remaining_size # 0 =>
                      /\ free_root = Some(r.node_ptr) => free_root' = Some(new)
                      /\ \A a \in ListAddrs :
                            nodes[a].next_ptr = Some(r.node_ptr) =>
                                /\ a \in DOMAIN nodes'
                                /\ nodes'[a].next_ptr = Some(new)
                      /\ new \in Reach(nodes', free_root', {})
                      /\ nodes'[new].size = r.specs.remaining_size
                      /\ r.node_ptr \in DOMAIN nodes =>
                            nodes'[new].next_ptr = nodes[r.node_ptr].next_ptr]_vars

\* C27: when alloc consumes a whole node (remaining_size = 0) the node is
\* removed from the list: free_root becomes current.next when current was the
\* root (empty when it was the only node), and otherwise the next stored in
\* the previous node becomes current.next
C27_WholeNodeRemoved ==
    [][\A size \in Sizes : \A align \in Aligns : \A g \in GarbageNodes :
          (Alloc(size, align, g) /\ last'.ptr # -1 /\ status' = "ok") =>
              LET r == alloc(Heap, size, align, g)
              IN  (r.specs.remaining_size = 0 /\ r.node_ptr \in DOMAIN nodes) =>
                      /\ free_root = Some(r.node_ptr) =>
                            free_root' = nodes[r.node_ptr].next_ptr
                      /\ \A a \in ListAddrs :
                            nodes[a].next_ptr = Some(r.node_ptr) =>
                                /\ a \in DOMAIN nodes'
                                /\ nodes'[a].next_ptr = nodes[r.node_ptr].next_ptr
                      /\ r.node_ptr \notin Reach(nodes', free_root', {})]_vars

\* ------------------------------------------- try_get_alloc_specs on its own
\* One call of Node::try_get_alloc_specs on a node of any size at any
\* address, for any request. usize arithmetic is modelled on the integers:
\* an underflow of the code shows as a negative number; the sums stay far
\* below 2^64.
SpecsInputs ==
    [node_size : NodeSizes, size : RequestSizes, align : RequestAligns,
     ptr : NodePtrs]

SpecsInit ==
    /\ FreeListNew
    /\ BumpNew
    /\ LockNew
    /\ spec_in \in SpecsInputs
    /\ spec_out = None
    /\ list_in = IdleListInput
    /\ list_out = None

ApplySpecs ==
    /\ spec_out = None
    /\ spec_out' = Some(try_get_alloc_specs(
                       [size |-> spec_in.node_size, next_ptr |-> None],
                       spec_in.size, spec_in.align, spec_in.ptr))
    /\ UNCHANGED <<spec_in, list_in, list_out, vars, bump_vars, lock_vars>>

SpecsNext == ApplySpecs

SpecsSpec == SpecsInit /\ [][SpecsNext]_all_vars

\* the call has been made and accepted
Accepted == spec_out # None /\ spec_out[1].ok

\* what the request needs in the node: padding, payload and metadata
Needed ==
    ((spec_in.align - (spec_in.ptr % spec_in.align)) % spec_in.align)
        + spec_in.size + ALLOCATION_METADATA_LAYOUT_SIZE

\* C28: whenever try_get_alloc_specs accepts with remaining_size # 0, the
\* remainder is at least as large as a Node header, for every node size,
\* request size, alignment and node address.
C28_RemainderHoldsHeader ==
    (Accepted /\ spec_out[1].remaining_size # 0) =>
        spec_out[1].remaining_size >= NODE_LAYOUT_SIZE

\* C29: whenever try_get_alloc_specs accepts, padding, size, metadata, fill
\* padding and remainder add up to the size of the node, and no part of the
\* result is the outcome of an underflowing subtraction.
C29_ExactPartition ==
    Accepted =>
        /\ spec_out[1].padding + spec_out[1].size
             + ALLOCATION_METADATA_LAYOUT_SIZE + spec_out[1].fill_padding
             + spec_out[1].remaining_size = spec_in.node_size
        /\ spec_out[1].padding >= 0
        /\ spec_out[1].fill_padding >= 0
        /\ spec_out[1].remaining_size >= 0
        /\ spec_out[1].size = spec_in.size

\* an accepted split with alignment padding, fill padding and a remainder
C29_Witness ==
    /\ Accepted
    /\ spec_out[1].remaining_size # 0
    /\ spec_out[1].fill_padding # 0
    /\ spec_out[1].padding # 0

\* C30: try_get_alloc_specs rejects exactly when size > node.size, or padding
\* + size + metadata > node.size, or node.size is smaller than a Node header;
\* it accepts in every other case.
C30_RejectsExactly ==
    spec_out # None =>
        (~spec_out[1].ok <=>
            \/ spec_in.size > spec_in.node_size
            \/ Needed > spec_in.node_size
            \/ spec_in.node_size < NODE_LAYOUT_SIZE)

\* a request that fits a node too small for a Node header is rejected
C30_Witness ==
    /\ spec_out # None
    /\ ~spec_out[1].ok
    /\ spec_in.size <= spec_in.node_size
    /\ Needed <= spec_in.node_size
    /\ spec_in.node_size < NODE_LAYOUT_SIZE

\* ------------------------------------------------- claims on bumper.rs (2)
\* C24: concurrent alloc calls, no reset. When thread t wins the
\* compare-and-exchange on a cursor value, every other thread working from
\* that value finds the cursor beyond it and cannot succeed on it; a thread
\* whose compare-and-exchange fails goes on from the cursor value it found;
\* a call leaves the loop only with an offset or a failure; and every call
\* that has begun leaves the loop.
C24_ContentionTerminates ==
    /\ [][\A t \in Threads :
            /\ CasSuccess(t) =>
                  \A u \in Threads \ {t} :
                      (threads[u].pc = "cas" /\ threads[u].seen = threads[t].seen) =>
                          /\ threads'[u].pc = "cas"
                          /\ allocated' > threads'[u].seen
                          /\ ~compare_exchange(allocated', threads'[u].seen)
            /\ CasRetry(t) =>
                  /\ threads'[t].pc = "cas"
                  /\ threads'[t].seen = allocated
                  /\ allocated' = allocated
            /\ (threads[t].pc = "cas" /\ threads'[t].pc # "cas") =>
                  bump_last'.op \in {"alloc_ok", "alloc_fail", "panic"}]_all_vars
    /\ \A t \in Threads : (threads[t].pc = "cas") ~> (threads[t].pc # "cas")

\* a thread has lost the race on the cursor value the other thread's
\* allocation was made from, and has not retried yet
C24_Witness ==
    \E u \in Threads :
        /\ threads[u].pc = "cas"
        /\ bump_last.op = "alloc_ok"
        /\ bump_last.c = threads[u].seen
        /\ allocated # threads[u].seen
        /\ fetch_update_closure(threads[u].seen, threads[u].size, threads[u].align) # None

\* ------------------------------------------- claims on the free list (3)
Holders == {t \in LockThreads : lpc[t] = "holding"}

\* at most one thread is inside the critical section, it is the one the Mutex
\* records, and no other operation ran since it entered
Serialized ==
    /\ Cardinality(Holders) <= 1
    /\ \A t \in LockThreads : lpc[t] = "holding" <=> mutex = t
    /\ \A t \in Holders : ~overlapped[t]

\* C22: alloc and dealloc hold the single lock from their first read of the
\* free list to their last write: at most one operation is inside the
\* critical section at any time, the root, the nodes and the metadata change
\* only in a step of the thread holding the lock, and no operation runs on a
\* root or node that another operation changed after it took the lock.
C22_Serialized ==
    [][/\ Serialized
       /\ Serialized'
       /\ (<<free_root, nodes, metas>>' # <<free_root, nodes, metas>>) =>
             \E t \in LockThreads :
                 /\ Holders = {t}
                 /\ mutex = t
                 /\ ~overlapped[t]
                 /\ lpc'[t] = "idle"
                 /\ \A u \in LockThreads \ {t} : lpc'[u] = lpc[u]]_all_vars

\* an operation has been made, and one thread is inside the critical section
\* while the other waits in lock()
C22_Witness ==
    /\ calls > 0
    /\ status = "ok"
    /\ \E t, u \in LockThreads : lpc[t] = "holding" /\ lpc[u] = "waiting"

\* C23: no state is a deadlock and every call that waits for the lock
\* acquires it and completes. In a finite run: no call waits for a lock
\* whose holder never returns.
C23_WaitersAcquire ==
    (\E t \in LockThreads : lpc[t] = "waiting") =>
        ~(mutex # 0 /\ status = "hang")

\* --------------------------------------- claims on try_get_alloc_specs (2)
Max(a, b) == IF a >= b THEN a ELSE b

\* C31: on acceptance, with alloc_size = padding + size + metadata: when
\* node.size > alloc_size + header size, fill_padding is
\* max(0, header size - alloc_size) and remaining_size > 0; otherwise
\* fill_padding is node.size - alloc_size and remaining_size = 0.
C31_FillPaddingByCase ==
    Accepted =>
        IF spec_in.node_size > Needed + NODE_LAYOUT_SIZE
        THEN /\ spec_out[1].fill_padding = Max(0, NODE_LAYOUT_SIZE - Needed)
             /\ spec_out[1].remaining_size > 0
        ELSE /\ spec_out[1].fill_padding = spec_in.node_size - Needed
             /\ spec_out[1].remaining_size = 0

\* an accepted split of a node by a request that needs more than a Node
\* header: no fill padding
C31_Witness ==
    /\ Accepted
    /\ spec_in.node_size > Needed + NODE_LAYOUT_SIZE
    /\ Needed > NODE_LAYOUT_SIZE
    /\ spec_out[1].fill_padding = 0
    /\ spec_out[1].remaining_size > 0

\* ---------------------- find_insertion_point and try_merge_nodes on their own
ListInit ==
    /\ FreeListNew
    /\ BumpNew
    /\ LockNew
    /\ spec_in = IdleSpecsInput
    /\ spec_out = None
    /\ list_in \in {in \in ListInputs : BlockFree(in)}
    /\ list_out = None

\* create_free_node, the call of find_insertion_point
ApplyFind ==
    /\ list_out = None
    /\ \E g \in GarbageNodes :
          list_out' = Some([ip |-> find_insertion_point(list_in.nodes,
                                      list_in.block_ptr, list_in.root, g),
                            m |-> None])
    /\ UNCHANGED <<list_in, spec_in, spec_out, vars, bump_vars, lock_vars>>

\* create_free_node, the call of try_merge_nodes with the pair found
ApplyMerge ==
    /\ list_out # None
    /\ list_out[1].m = None
    /\ ~list_out[1].ip.hang
    /\ \E g \in GarbageNodes :
          list_out' = Some([list_out[1] EXCEPT !.m =
                             Some(try_merge_nodes(list_in.nodes, list_in.block_ptr,
                                      list_in.block_size, list_out[1].ip.previous,
                                      list_out[1].ip.next, g))])
    /\ UNCHANGED <<list_in, spec_in, spec_out, vars, bump_vars, lock_vars>>

ListNext ==
    \/ ApplyFind
    \/ ApplyMerge

ListSpec == ListInit /\ [][ListNext]_all_vars

\* the nodes of the list below and above the block
Below == {a \in DOMAIN list_in.nodes : a < list_in.block_ptr}
Above == {a \in DOMAIN list_in.nodes : a > list_in.block_ptr}

\* C32: for a non-empty address-sorted list and a block not in it,
\* find_insertion_point returns (previous, next): previous is the highest
\* node below the block, absent only when the block is below the root; next
\* is the lowest node above it, absent only when the block is above the last
\* node; next is the successor of previous; the two are never both absent.
C32_InsertionPoint ==
    list_out # None =>
        LET ip == list_out[1].ip
        IN  /\ ~ip.hang
            /\ ip.previous = (IF Below = {} THEN None ELSE Some(Highest(Below)))
            /\ ip.next = (IF Above = {} THEN None ELSE Some(Lowest(Above)))
            /\ ip.previous = None <=> list_in.block_ptr < list_in.root
            /\ ip.previous # None =>
                  list_in.nodes[ip.previous[1]].next_ptr = ip.next
            /\ ip.previous = None => ip.next = Some(list_in.root)
            /\ ~(ip.previous = None /\ ip.next = None)

\* a place found between two nodes, neither of them the root
C32_Witness ==
    /\ list_out # None
    /\ list_out[1].ip.previous # None
    /\ list_out[1].ip.next # None
    /\ list_out[1].ip.previous # Some(list_in.root)
    /\ Cardinality(DOMAIN list_in.nodes) >= 3

\* the pair try_merge_nodes was called with
MergePrevious == list_out[1].ip.previous
MergeNext == list_out[1].ip.next

\* the block is contiguous with the previous node
TouchesPrevious ==
    /\ MergePrevious # None
    /\ MergePrevious[1] + list_in.nodes[MergePrevious[1]].size = list_in.block_ptr

\* address and size after the merge with the previous node, if any
MergedAddr == IF TouchesPrevious THEN MergePrevious[1] ELSE list_in.block_ptr
MergedSize ==
    IF TouchesPrevious
    THEN list_in.block_size + list_in.nodes[MergePrevious[1]].size
    ELSE list_in.block_size

\* the (possibly merged) block ends where the next node starts
TouchesNext == MergeNext # None /\ MergedAddr + MergedSize = MergeNext[1]

C33_RootUpdate ==
    [][(last'.op = "dealloc" /\ status' = "ok") =>
          /\ free_root = None =>
                /\ free_root' = Some(last'.block_ptr)
                /\ nodes'[last'.block_ptr] =
                      [size |-> last'.block_size, next_ptr |-> None]
          /\ (free_root # None /\ last'.block_ptr < free_root[1]) =>
                /\ free_root' = Some(last'.block_ptr)
                /\ last'.block_ptr \in DOMAIN nodes'
                /\ nodes'[last'.block_ptr].size >= last'.block_size
          /\ (\E a \in ListAddrs : a < last'.block_ptr) =>
                free_root' = free_root]_vars

\* the extents <<address, length>> of the free nodes of the list and of the
\* blocks consumed by the live allocations
FreeExtents == {<<a, nodes[a].size>> : a \in ListAddrs}
LiveExtents == {<<l.node, l.bsize>> : l \in live}

RECURSIVE SumOfLengths(_)
SumOfLengths(E) ==
    IF E = {} THEN 0
    ELSE LET e == CHOOSE x \in E : TRUE
         IN  e[2] + SumOfLengths(E \ {e})

\* C35: after any sequence of alloc and dealloc calls the sizes of the free
\* nodes reachable from free_root and the consumed sizes (padding + size +
\* metadata + fill padding) of the live allocations add up to the capacity,
\* and those extents are pairwise disjoint.
C35_Conservation ==
    status = "ok" =>
        /\ SumOfLengths(FreeExtents) + SumOfLengths(LiveExtents) = S
        /\ Cardinality(LiveExtents) = Cardinality(live)
        /\ \A e, f \in FreeExtents \cup LiveExtents :
              e # f => ~Overlaps(e[1], e[2], f[1], f[2])

\* --------------------------------------------------- allocate, then free
\* Runs of the round trip: successful allocations on the fresh arena, then
\* only deallocations, in any order; the callers may write their payloads at
\* any time.
RoundTripNext ==
    \/ \E size \in Sizes, align \in Aligns, g \in GarbageNodes :
          /\ fresh
          /\ Alloc(size, align, g)
          /\ last'.ptr # -1
          /\ UNCHANGED lock_vars
    \/ \E l \in live, g \in GarbageNodes, gm \in GarbageMetas :
          Dealloc(l, g, gm) /\ UNCHANGED lock_vars
    \/ \E l \in live : CallerWrite(l) /\ UNCHANGED lock_vars

RoundTripSpec == Init /\ [][RoundTripNext]_all_vars

\* C36: starting from a fresh arena, after any sequence of successful
\* allocations followed by the deallocation of every one of them in any
\* order, the free list is again a single node at offset 0 of size S with no
\* next.
C36_RoundTrip ==
    (~fresh /\ live = {} /\ status = "ok") =>
        /\ free_root = Some(0)
        /\ ListAddrs = {0}
        /\ nodes[0] = [size |-> S, next_ptr |-> None]

\* the walk along the Nodes stored in ns, from p on, comes back to a node it
\* has visited
RECURSIVE Cyclic(_, _, _)
Cyclic(ns, p, seen) ==
    IF p = None \/ p[1] \notin DOMAIN ns
    THEN FALSE
    ELSE IF p[1] \in seen
    THEN TRUE
    ELSE Cyclic(ns, ns[p[1]].next_ptr, seen \cup {p[1]})

\* C37: in every state reachable by alloc and dealloc the list reachable from
\* free_root is finite and acyclic, and every alloc and dealloc call
\* terminates: no walk of alloc or of find_insertion_point goes on for ever.
C37_AcyclicTerminates ==
    /\ ~Cyclic(nodes, free_root, {})
    /\ status # "hang"

====
